---- MODULE Spec2Model ----
(***************************************************************************)
(* Model of BusinessModelInnovationFramework                               *)
(* (src/AutonomousBusinessModelInnovationFramework.py).                    *)
(*                                                                         *)
(* One framework instance is driven by one synchronous caller.  Every      *)
(* collaborator call is one step; its outcome (a returned value or a       *)
(* raised exception) is chosen nondeterministically.  The calendar         *)
(* (date.today()) advances independently of the caller.                    *)
(***************************************************************************)
EXTENDS Integers, Sequences, FiniteSets, TLC

VARIABLES
    today,                        \* value date.today() returns now
    last_analysis_date,           \* self._last_analysis_date
    models_validated_last_week,   \* self._models_validated_last_week
    op,                           \* public method called, "none" between calls
    pc,                           \* position inside the method; "done" once it has
                                  \* returned or raised, "idle" between calls
    args,                         \* arguments of the call
    market_data,                  \* local of analyze_market_trends
    customer_insights,            \* local of analyze_market_trends
    market_trends,                \* local of generate_business_models
    acc,                          \* validation_results / optimized_models
    idx,                          \* position of the for loop in the input
    calls,                        \* collaborator calls made by the call so far
    result,                       \* outcome of the call
    pre_date,                     \* history: last_analysis_date when the call started
    decision,                     \* history: what line 75 saw and chose
    lastSuccess,                  \* history: date at which an analysis last returned a report
    freshToday,                   \* history: a generate call chose the fresh path on this date
    kept,                         \* what the caller has kept of an earlier call
    other,                        \* the call of a second thread, while it is not running
    main_pc,                      \* position inside main()
    models,                       \* local of main()
    validation_results            \* local of main()

\* The variables of the callers; they change only in the specifications that
\* describe a particular caller.
scen == <<kept, other, main_pc, models, validation_results>>

vars == <<today, last_analysis_date, models_validated_last_week, op, pc, args,
          market_data, customer_insights, market_trends, acc, idx, calls,
          result, pre_date, decision, lastSuccess, freshToday, scen>>

locals == <<market_data, customer_insights, market_trends, acc, idx>>

-----------------------------------------------------------------------------
(* Bounds *)

MaxTicks == 2       \* days the calendar advances past FirstDay
MaxLen == 3         \* longest input sequence of validate_models / optimize_models

-----------------------------------------------------------------------------
(* datetime.date *)

\* Python's None, for string valued and for date valued places.
None == "None"
NoDate == [year |-> 0, month |-> 0, day |-> 0]

FirstDay == [year |-> 2024, month |-> 12, day |-> 31]

IsLeap(y) == (y % 4 = 0) /\ ((y % 100 # 0) \/ (y % 400 = 0))

DaysInMonth(y, m) ==
    IF m = 2 THEN (IF IsLeap(y) THEN 29 ELSE 28)
    ELSE IF m \in {4, 6, 9, 11} THEN 30 ELSE 31

NextDay(d) ==
    IF d.day < DaysInMonth(d.year, d.month)
    THEN [d EXCEPT !.day = d.day + 1]
    ELSE IF d.month < 12
         THEN [d EXCEPT !.month = d.month + 1, !.day = 1]
         ELSE [year |-> d.year + 1, month |-> 1, day |-> 1]

RECURSIVE DayAfter(_, _)
DayAfter(d, n) == IF n = 0 THEN d ELSE DayAfter(NextDay(d), n - 1)

LastDay == DayAfter(FirstDay, MaxTicks)

\* date.__gt__: a > b, compared as (year, month, day)
DateGT(a, b) ==
    \/ a.year > b.year
    \/ a.year = b.year /\ a.month > b.month
    \/ a.year = b.year /\ a.month = b.month /\ a.day > b.day

Digit(n) ==
    CASE n = 0 -> "0" [] n = 1 -> "1" [] n = 2 -> "2" [] n = 3 -> "3"
      [] n = 4 -> "4" [] n = 5 -> "5" [] n = 6 -> "6" [] n = 7 -> "7"
      [] n = 8 -> "8" [] n = 9 -> "9"

\* a two-digit, zero-padded field of the ISO form
Pad2(n) == Digit((n \div 10) % 10) \o Digit(n % 10)

Pad4(n) == Pad2(n \div 100) \o Pad2(n % 100)

\* date.isoformat(): "YYYY-MM-DD"
isoformat(d) == Pad4(d.year) \o "-" \o Pad2(d.month) \o "-" \o Pad2(d.day)

-----------------------------------------------------------------------------
(* Values the collaborators can hand back *)

Errors == {"ErrA", "ErrB"}           \* exceptions a collaborator may raise
KeyError == "KeyError"               \* raised by d[k] when k is not a key of d

GrowthRates == {5}
PainPointLists == {<< >>, <<"p1">>, <<"p2", "p1">>}

\* get_current_market_data(): a dict, with or without 'growth_rate'
MarketDataOutputs ==
    {[growth_rate |-> g] : g \in GrowthRates} \cup {[timestamp |-> 0]}

\* extract_insights(): a dict, with or without 'pain_points'
InsightOutputs ==
    {[pain_points |-> p] : p \in PainPointLists} \cup {[sentiment |-> 0]}

Ok(v) == [status |-> "ok", value |-> v]
Raised(e) == [status |-> "raised", value |-> e]
Pending == [status |-> "pending", value |-> None]

Call(fn, a, r) == [fn |-> fn, arg |-> a, ret |-> r]

NoDecision == [path |-> "none", last |-> NoDate, today |-> NoDate]
NoArgs == << >>

\* nothing kept of an earlier call
NoKept ==
    [kind |-> "none", day |-> NoDate, date |-> NoDate,
     market_data |-> << >>, customer_insights |-> << >>, report |-> << >>]

\* a thread that is between two calls
IdleFrame ==
    [op |-> "none", pc |-> "idle", args |-> NoArgs, market_data |-> None,
     customer_insights |-> None, market_trends |-> None, acc |-> << >>,
     idx |-> 0, calls |-> << >>, result |-> Pending, pre_date |-> NoDate,
     decision |-> NoDecision]

-----------------------------------------------------------------------------
(* The state after __init__ *)

Init ==
    /\ today = FirstDay
    /\ last_analysis_date = NoDate
    /\ models_validated_last_week = 0
    /\ op = "none"
    /\ pc = "idle"
    /\ args = NoArgs
    /\ market_data = None
    /\ customer_insights = None
    /\ market_trends = None
    /\ acc = << >>
    /\ idx = 0
    /\ calls = << >>
    /\ result = Pending
    /\ pre_date = NoDate
    /\ decision = NoDecision
    /\ lastSuccess = NoDate
    /\ freshToday = FALSE
    /\ kept = NoKept
    /\ other = IdleFrame
    /\ main_pc = "m_211"
    /\ models = << >>
    /\ validation_results = << >>

\* The calendar moves to the next day; no method is involved.
Tick ==
    /\ today # LastDay
    /\ today' = NextDay(today)
    /\ freshToday' = FALSE
    /\ UNCHANGED <<last_analysis_date, models_validated_last_week, scen, op, pc, args,
                   market_data, customer_insights, market_trends, acc, idx,
                   calls, result, pre_date, decision, lastSuccess>>

-----------------------------------------------------------------------------
(* Entering and leaving a public method *)

\* d.get(k): the value under k, None when k is not a key
Get(d, k) == IF k \in DOMAIN d THEN d[k] ELSE None

ClearLocals ==
    /\ market_data' = None
    /\ customer_insights' = None
    /\ market_trends' = None
    /\ acc' = << >>
    /\ idx' = 0

\* The caller invokes method o with arguments a; p is its first statement.
Begin(o, a, p) ==
    /\ pc = "idle"
    /\ op' = o
    /\ args' = a
    /\ pc' = p
    /\ calls' = << >>
    /\ result' = Pending
    /\ pre_date' = last_analysis_date
    /\ decision' = NoDecision
    /\ UNCHANGED <<today, last_analysis_date, models_validated_last_week,
                   lastSuccess, freshToday>>
    /\ UNCHANGED locals

\* return v
Return(v) ==
    /\ pc' = "done"
    /\ result' = Ok(v)
    /\ ClearLocals

\* Variant of the handlers that raises a new error of the framework's own in
\* place of the one caught.
Reraise_Wrapped(e) ==
    /\ pc' = "done"
    /\ result' = Raised("FrameworkError")
    /\ ClearLocals

\* except Exception as e: logger.error(...); raise
\* The exception leaves the method (and, from analyze_market_trends called
\* by generate_business_models, the enclosing method as well) unchanged.
Reraise(e) ==
    /\ pc' = "done"
    /\ result' = Raised(e)
    /\ ClearLocals

\* The caller has received the return value or the exception: the call is over.
Resume ==
    /\ pc = "done"
    /\ pc' = "idle"
    /\ op' = "none"
    /\ args' = NoArgs
    /\ calls' = << >>
    /\ result' = Pending
    /\ pre_date' = NoDate
    /\ decision' = NoDecision
    /\ UNCHANGED <<today, last_analysis_date, models_validated_last_week,
                   lastSuccess, freshToday>>
    /\ UNCHANGED locals

\* A caller that keeps nothing of the call moves on.
CallerResumes == Resume /\ UNCHANGED scen

-----------------------------------------------------------------------------
(* analyze_market_trends, lines 39-60 *)

Call_analyze_market_trends ==
    Begin("analyze_market_trends", NoArgs, "amt_46") /\ UNCHANGED scen

\* Variant of line 46 whose failure also forgets the recorded date.
GetCurrentMarketData_ClearsDateOnFailure ==
    /\ pc = "amt_46"
    /\ \/ \E out \in MarketDataOutputs :
            /\ calls' = Append(calls, Call("get_current_market_data", << >>, Ok(out)))
            /\ market_data' = out
            /\ pc' = "amt_47"
            /\ UNCHANGED <<customer_insights, market_trends, acc, idx, result,
                           last_analysis_date>>
       \/ \E e \in Errors :
            /\ calls' = Append(calls, Call("get_current_market_data", << >>, Raised(e)))
            /\ last_analysis_date' = NoDate
            /\ Reraise(e)
    /\ UNCHANGED <<today, models_validated_last_week, scen, op,
                   args, pre_date, decision, lastSuccess, freshToday>>

\* line 46: market_data = self.market_analyzer.get_current_market_data()
GetCurrentMarketData ==
    /\ pc = "amt_46"
    /\ \/ \E out \in MarketDataOutputs :
            /\ calls' = Append(calls, Call("get_current_market_data", << >>, Ok(out)))
            /\ market_data' = out
            /\ pc' = "amt_47"
            /\ UNCHANGED <<customer_insights, market_trends, acc, idx, result>>
       \/ \E e \in Errors :
            /\ calls' = Append(calls, Call("get_current_market_data", << >>, Raised(e)))
            /\ Reraise(e)
    /\ UNCHANGED <<today, last_analysis_date, models_validated_last_week, scen, op,
                   args, pre_date, decision, lastSuccess, freshToday>>

\* line 47: customer_insights = self.customer_insight_extractor.extract_insights()
ExtractInsights ==
    /\ pc = "amt_47"
    /\ \/ \E out \in InsightOutputs :
            /\ calls' = Append(calls, Call("extract_insights", << >>, Ok(out)))
            /\ customer_insights' = out
            /\ pc' = "amt_50"
            /\ UNCHANGED <<market_data, market_trends, acc, idx, result>>
       \/ \E e \in Errors :
            /\ calls' = Append(calls, Call("extract_insights", << >>, Raised(e)))
            /\ Reraise(e)
    /\ UNCHANGED <<today, last_analysis_date, models_validated_last_week, scen, op,
                   args, pre_date, decision, lastSuccess, freshToday>>

\* Variant of lines 50-53 whose report also tells when the market was last
\* analysed.
normalized_data_WithPreviousDate(md, ci) ==
    [market_growth |-> md["growth_rate"],
     customer_pain_points |-> ci["pain_points"],
     previous_analysis |-> last_analysis_date]

\* lines 50-53: the report built from the two collaborator outputs
normalized_data(md, ci) ==
    [market_growth |-> md["growth_rate"],
     customer_pain_points |-> ci["pain_points"]]

\* Variant of lines 50-56 with line 55 moved before the report is built: the
\* date is recorded even when a key is missing.
NormalizeAndRecord_DateBeforeReport ==
    /\ pc = "amt_50"
    /\ last_analysis_date' = today
    /\ IF "growth_rate" \in DOMAIN market_data
          /\ "pain_points" \in DOMAIN customer_insights
       THEN /\ lastSuccess' = today
            /\ IF op = "analyze_market_trends"
               THEN Return(normalized_data(market_data, customer_insights))
               ELSE /\ market_trends' = normalized_data(market_data, customer_insights)
                    /\ market_data' = None
                    /\ customer_insights' = None
                    /\ pc' = "gbm_81"
                    /\ UNCHANGED <<acc, idx, result>>
       ELSE /\ Reraise(KeyError)
            /\ UNCHANGED lastSuccess
    /\ UNCHANGED <<today, models_validated_last_week, scen, op, args, calls,
                   pre_date, decision, freshToday>>

\* Variant of lines 50-56 without line 55: the report is returned but the
\* date is not recorded.
NormalizeAndRecord_DateNotRecorded ==
    /\ pc = "amt_50"
    /\ IF "growth_rate" \in DOMAIN market_data
          /\ "pain_points" \in DOMAIN customer_insights
       THEN /\ lastSuccess' = today
            /\ UNCHANGED last_analysis_date
            /\ IF op = "analyze_market_trends"
               THEN Return(normalized_data(market_data, customer_insights))
               ELSE /\ market_trends' = normalized_data(market_data, customer_insights)
                    /\ market_data' = None
                    /\ customer_insights' = None
                    /\ pc' = "gbm_81"
                    /\ UNCHANGED <<acc, idx, result>>
       ELSE /\ Reraise(KeyError)
            /\ UNCHANGED <<last_analysis_date, lastSuccess>>
    /\ UNCHANGED <<today, models_validated_last_week, scen, op, args, calls,
                   pre_date, decision, freshToday>>

\* lines 50-56: build the report, record the date, return the report
\* (to the caller, or to line 76 of generate_business_models).
NormalizeAndRecord ==
    /\ pc = "amt_50"
    /\ IF "growth_rate" \in DOMAIN market_data
          /\ "pain_points" \in DOMAIN customer_insights
       THEN /\ last_analysis_date' = today
            /\ lastSuccess' = today
            /\ IF op = "analyze_market_trends"
               THEN Return(normalized_data(market_data, customer_insights))
               ELSE /\ market_trends' = normalized_data(market_data, customer_insights)
                    /\ market_data' = None
                    /\ customer_insights' = None
                    /\ pc' = "gbm_81"
                    /\ UNCHANGED <<acc, idx, result>>
       ELSE /\ Reraise(KeyError)
            /\ UNCHANGED <<last_analysis_date, lastSuccess>>
    /\ UNCHANGED <<today, models_validated_last_week, scen, op, args, calls,
                   pre_date, decision, freshToday>>

-----------------------------------------------------------------------------
(* generate_business_models, lines 62-91 *)

Segments == {"s1", "s2"}
Revenues == {100, 200}

\* get_cached_data(): a dict, with or without 'customer_pain_points'
CachedOutputs ==
    {[market_growth |-> g, customer_pain_points |-> p] :
        g \in GrowthRates, p \in {<< >>, <<"p1">>, <<"c1">>}}
    \cup {[market_growth |-> g] : g \in GrowthRates}

\* proposal records the Financial Modeler creates
Proposals ==
    {[uuid |-> "u1", market_segment |-> "s1", revenue_projections |-> "r1"],
     [uuid |-> "u2", market_segment |-> "s2", revenue_projections |-> "r2"]}

\* create_models(...): an ordered sequence of proposals
ProposalLists ==
    {<< >>} \cup {<<m>> : m \in Proposals}
            \cup {<<m, n>> : m \in Proposals, n \in Proposals}

Call_generate_business_models ==
    \E seg \in Segments, rev \in Revenues :
        /\ Begin("generate_business_models",
                 [market_segment |-> seg, target_revenue |-> rev], "gbm_75")
        /\ UNCHANGED scen

\* Variant of line 75 with >= in place of >.
NeedsFreshAnalysis_GreaterOrEqual(last, t) == last = NoDate \/ DateGT(t, last) \/ t = last

\* line 75: not self._last_analysis_date or date.today() > self._last_analysis_date
NeedsFreshAnalysis(last, t) == last = NoDate \/ DateGT(t, last)

\* Variant of lines 75-78 that records the date together with the choice of
\* the fresh path.
ChooseTrendSource_RecordsDateAtChoice ==
    /\ pc = "gbm_75"
    /\ IF NeedsFreshAnalysis(last_analysis_date, today)
       THEN /\ pc' = "amt_46"
            /\ decision' = [path |-> "fresh", last |-> last_analysis_date,
                            today |-> today]
            /\ freshToday' = TRUE
            /\ last_analysis_date' = today
       ELSE /\ pc' = "gbm_78"
            /\ decision' = [path |-> "cached", last |-> last_analysis_date,
                            today |-> today]
            /\ UNCHANGED <<freshToday, last_analysis_date>>
    /\ UNCHANGED <<today, models_validated_last_week, scen, op,
                   args, calls, result, pre_date, lastSuccess>>
    /\ UNCHANGED locals

\* lines 75-78: choose the trend source
ChooseTrendSource ==
    /\ pc = "gbm_75"
    /\ IF NeedsFreshAnalysis(last_analysis_date, today)
       THEN /\ pc' = "amt_46"
            /\ decision' = [path |-> "fresh", last |-> last_analysis_date,
                            today |-> today]
            /\ freshToday' = TRUE
       ELSE /\ pc' = "gbm_78"
            /\ decision' = [path |-> "cached", last |-> last_analysis_date,
                            today |-> today]
            /\ UNCHANGED freshToday
    /\ UNCHANGED <<today, last_analysis_date, models_validated_last_week, scen, op,
                   args, calls, result, pre_date, lastSuccess>>
    /\ UNCHANGED locals

\* Variant of line 78 that falls back to empty trends when the cache read
\* raises, and goes on to create_models.
GetCachedData_FallbackOnError ==
    /\ pc = "gbm_78"
    /\ \/ \E out \in CachedOutputs :
            /\ calls' = Append(calls, Call("get_cached_data", << >>, Ok(out)))
            /\ market_trends' = out
       \/ \E e \in Errors :
            /\ calls' = Append(calls, Call("get_cached_data", << >>, Raised(e)))
            /\ market_trends' = [customer_pain_points |-> << >>]
    /\ pc' = "gbm_81"
    /\ UNCHANGED <<market_data, customer_insights, acc, idx, result>>
    /\ UNCHANGED <<today, last_analysis_date, models_validated_last_week, scen, op,
                   args, pre_date, decision, lastSuccess, freshToday>>

\* line 78: market_trends = self.market_analyzer.get_cached_data()
GetCachedData ==
    /\ pc = "gbm_78"
    /\ \/ \E out \in CachedOutputs :
            /\ calls' = Append(calls, Call("get_cached_data", << >>, Ok(out)))
            /\ market_trends' = out
            /\ pc' = "gbm_81"
            /\ UNCHANGED <<market_data, customer_insights, acc, idx, result>>
       \/ \E e \in Errors :
            /\ calls' = Append(calls, Call("get_cached_data", << >>, Raised(e)))
            /\ Reraise(e)
    /\ UNCHANGED <<today, last_analysis_date, models_validated_last_week, scen, op,
                   args, pre_date, decision, lastSuccess, freshToday>>

\* Variant of lines 82-84 that does not forward the pain points.
CreateModelsArgs_NoPainPoints(a, mt) ==
    <<a.market_segment, a.target_revenue, << >>>>

\* lines 82-84: the arguments handed to create_models
CreateModelsArgs(a, mt) ==
    <<a.market_segment, a.target_revenue, mt["customer_pain_points"]>>

\* Variant of lines 81-91 whose handler undoes the analysis of the call when
\* create_models raises.
CreateModels_RollsBackDate ==
    /\ pc = "gbm_81"
    /\ IF "customer_pain_points" \in DOMAIN market_trends
       THEN \/ \E out \in ProposalLists :
                 /\ calls' = Append(calls,
                        Call("create_models", CreateModelsArgs(args, market_trends), Ok(out)))
                 /\ Return(out)
                 /\ UNCHANGED last_analysis_date
            \/ \E e \in Errors :
                 /\ calls' = Append(calls,
                        Call("create_models", CreateModelsArgs(args, market_trends), Raised(e)))
                 /\ Reraise(e)
                 /\ last_analysis_date' = pre_date
       ELSE /\ Reraise(KeyError)
            /\ UNCHANGED <<calls, last_analysis_date>>
    /\ UNCHANGED <<today, models_validated_last_week, scen, op,
                   args, pre_date, decision, lastSuccess, freshToday>>

\* lines 81-87: proposed_models = self.financial_modeler.create_models(...)
\*              return proposed_models
CreateModels ==
    /\ pc = "gbm_81"
    /\ IF "customer_pain_points" \in DOMAIN market_trends
       THEN \/ \E out \in ProposalLists :
                 /\ calls' = Append(calls,
                        Call("create_models", CreateModelsArgs(args, market_trends), Ok(out)))
                 /\ Return(out)
            \/ \E e \in Errors :
                 /\ calls' = Append(calls,
                        Call("create_models", CreateModelsArgs(args, market_trends), Raised(e)))
                 /\ Reraise(e)
       ELSE /\ Reraise(KeyError)
            /\ UNCHANGED calls
    /\ UNCHANGED <<today, last_analysis_date, models_validated_last_week, scen, op,
                   args, pre_date, decision, lastSuccess, freshToday>>

-----------------------------------------------------------------------------
(* validate_models, lines 93-115, and optimize_models, lines 117-139 *)

\* input models: dicts with 'uuid' and, optionally, the two other keys
ModelInputs ==
    {[uuid |-> "u1", market_segment |-> "s1", revenue_projections |-> "r1"],
     [uuid |-> "u1"],
     [uuid |-> "u2", market_segment |-> "s2"]}

RECURSIVE SeqsUpTo(_, _)
SeqsUpTo(S, n) ==
    IF n = 0 THEN {<< >>}
    ELSE LET shorter == SeqsUpTo(S, n - 1)
         IN  shorter \cup {Append(q, x) : q \in {r \in shorter : Len(r) = n - 1}, x \in S}

ModelSeqs == SeqsUpTo(ModelInputs, MaxLen)

OptimizedRecords == {"o1", "o2"}

\* Variant of d[k] = v that keeps the value already stored under k.
DictSet_KeepFirst(d, k, v) ==
    [x \in (DOMAIN d) \cup {k} |-> IF x \in DOMAIN d THEN d[x] ELSE v]

\* d[k] = v on a dict d
DictSet(d, k, v) == [x \in (DOMAIN d) \cup {k} |-> IF x = k THEN v ELSE d[x]]

\* lines 104-106 and 128-130: the arguments of validate / optimize for one model
ModelArgs(model) ==
    <<model["uuid"], Get(model, "market_segment"), Get(model, "revenue_projections")>>

\* raised by s['uuid'] on a str s
TypeError == "TypeError"

\* a Python str as an item of a list: it has no keys
Str(x) == [str |-> x]

Call_validate_models ==
    \E ms \in ModelSeqs : Begin("validate_models", ms, "vm_102") /\ UNCHANGED scen

\* Variant of lines 102-109 that skips a model whose validation raised and
\* goes on with the next one.
ValidateOne_ContinueOnError ==
    /\ pc = "vm_102"
    /\ idx < Len(args)
    /\ LET model == args[idx + 1]
       IN  \/ \E is_valid \in BOOLEAN :
                /\ calls' = Append(calls, Call("validate", ModelArgs(model), Ok(is_valid)))
                /\ acc' = DictSet(acc, model["uuid"], is_valid)
           \/ \E e \in Errors :
                /\ calls' = Append(calls, Call("validate", ModelArgs(model), Raised(e)))
                /\ UNCHANGED acc
    /\ idx' = idx + 1
    /\ UNCHANGED <<pc, result, market_data, customer_insights, market_trends>>
    /\ UNCHANGED <<today, last_analysis_date, models_validated_last_week, scen, op,
                   args, pre_date, decision, lastSuccess, freshToday>>

\* lines 102-109: one iteration of the loop.  model['uuid'] is evaluated
\* first: on an item that is a str it raises TypeError, and the collaborator
\* is not called.
ValidateOne ==
    /\ pc = "vm_102"
    /\ idx < Len(args)
    /\ LET model == args[idx + 1]
       IN  IF "uuid" \in DOMAIN model
           THEN \/ \E is_valid \in BOOLEAN :
                     /\ calls' = Append(calls, Call("validate", ModelArgs(model), Ok(is_valid)))
                     /\ acc' = DictSet(acc, model["uuid"], is_valid)
                     /\ idx' = idx + 1
                     /\ UNCHANGED <<pc, result, market_data, customer_insights, market_trends>>
                \/ \E e \in Errors :
                     /\ calls' = Append(calls, Call("validate", ModelArgs(model), Raised(e)))
                     /\ Reraise(e)
           ELSE /\ Reraise(TypeError)
                /\ UNCHANGED calls
    /\ UNCHANGED <<today, last_analysis_date, models_validated_last_week, scen, op,
                   args, pre_date, decision, lastSuccess, freshToday>>

\* Variant of line 111 that adds the validated models to the weekly counter.
ValidateReturn_CountsValidations ==
    /\ pc = "vm_102"
    /\ idx = Len(args)
    /\ Return(acc)
    /\ models_validated_last_week' = models_validated_last_week + Len(args)
    /\ UNCHANGED <<today, last_analysis_date, scen, op,
                   args, calls, pre_date, decision, lastSuccess, freshToday>>

\* line 111: return validation_results
ValidateReturn ==
    /\ pc = "vm_102"
    /\ idx = Len(args)
    /\ Return(acc)
    /\ UNCHANGED <<today, last_analysis_date, models_validated_last_week, scen, op,
                   args, calls, pre_date, decision, lastSuccess, freshToday>>

Call_optimize_models ==
    \E ms \in ModelSeqs : Begin("optimize_models", ms, "om_126") /\ UNCHANGED scen

\* Variant of lines 126-133 that puts the optimized model at the front of
\* the list (insert(0, ...) in place of append).
OptimizeOne_InsertAtFront ==
    /\ pc = "om_126"
    /\ idx < Len(args)
    /\ LET model == args[idx + 1]
       IN  \/ \E optimized_model \in OptimizedRecords :
                /\ calls' = Append(calls, Call("optimize", ModelArgs(model), Ok(optimized_model)))
                /\ acc' = <<optimized_model>> \o acc
                /\ idx' = idx + 1
                /\ UNCHANGED <<pc, result, market_data, customer_insights, market_trends>>
           \/ \E e \in Errors :
                /\ calls' = Append(calls, Call("optimize", ModelArgs(model), Raised(e)))
                /\ Reraise(e)
    /\ UNCHANGED <<today, last_analysis_date, models_validated_last_week, scen, op,
                   args, pre_date, decision, lastSuccess, freshToday>>

\* lines 126-133: one iteration of the loop
OptimizeOne ==
    /\ pc = "om_126"
    /\ idx < Len(args)
    /\ LET model == args[idx + 1]
       IN  \/ \E optimized_model \in OptimizedRecords :
                /\ calls' = Append(calls, Call("optimize", ModelArgs(model), Ok(optimized_model)))
                /\ acc' = Append(acc, optimized_model)
                /\ idx' = idx + 1
                /\ UNCHANGED <<pc, result, market_data, customer_insights, market_trends>>
           \/ \E e \in Errors :
                /\ calls' = Append(calls, Call("optimize", ModelArgs(model), Raised(e)))
                /\ Reraise(e)
    /\ UNCHANGED <<today, last_analysis_date, models_validated_last_week, scen, op,
                   args, pre_date, decision, lastSuccess, freshToday>>

\* line 135: return optimized_models
OptimizeReturn ==
    /\ pc = "om_126"
    /\ idx = Len(args)
    /\ Return(acc)
    /\ UNCHANGED <<today, last_analysis_date, models_validated_last_week, scen, op,
                   args, calls, pre_date, decision, lastSuccess, freshToday>>

-----------------------------------------------------------------------------
(* track_competition, lines 141-163 *)

IndexError == "IndexError"           \* raised by s[0] on an empty sequence

\* get_competitor_intelligence(segment): a dict of two ordered sequences
CompetitorOutputs ==
    {[gaps |-> g, recommendations |-> r] :
        g \in {<< >>, <<"g1">>, <<"g1", "g2">>}, r \in {<< >>, <<"r1">>, <<"r2", "r1">>}}

Call_track_competition ==
    \E seg \in Segments :
        Begin("track_competition", [market_segment |-> seg], "tc_149") /\ UNCHANGED scen

\* Variant of lines 154-157 that takes the last elements ([-1] for [0]).
competitive_analysis_LastElement(cd) ==
    [key_opportunity |-> cd["gaps"][Len(cd["gaps"])],
     differentiation_strategy |-> cd["recommendations"][Len(cd["recommendations"])]]

\* lines 154-157: the analysis built from the collaborator's output
competitive_analysis(cd) ==
    [key_opportunity |-> cd["gaps"][1],
     differentiation_strategy |-> cd["recommendations"][1]]

\* Variant of lines 149-159 that answers an empty sequence with None in place
\* of its first element.
GetCompetitorIntelligence_FallbackOnEmpty ==
    /\ pc = "tc_149"
    /\ \/ \E out \in CompetitorOutputs :
            /\ calls' = Append(calls,
                   Call("get_competitor_intelligence", <<args.market_segment>>, Ok(out)))
            /\ Return([key_opportunity |->
                          IF Len(out["gaps"]) = 0 THEN None ELSE out["gaps"][1],
                       differentiation_strategy |->
                          IF Len(out["recommendations"]) = 0 THEN None
                          ELSE out["recommendations"][1]])
       \/ \E e \in Errors :
            /\ calls' = Append(calls,
                   Call("get_competitor_intelligence", <<args.market_segment>>, Raised(e)))
            /\ Reraise(e)
    /\ UNCHANGED <<today, last_analysis_date, models_validated_last_week, scen, op,
                   args, pre_date, decision, lastSuccess, freshToday>>

\* lines 149-159: competitor_data = ...get_competitor_intelligence(market_segment),
\*                build the analysis from the first elements, return it
GetCompetitorIntelligence ==
    /\ pc = "tc_149"
    /\ \/ \E out \in CompetitorOutputs :
            /\ calls' = Append(calls,
                   Call("get_competitor_intelligence", <<args.market_segment>>, Ok(out)))
            /\ IF Len(out["gaps"]) = 0 \/ Len(out["recommendations"]) = 0
               THEN Reraise(IndexError)
               ELSE Return(competitive_analysis(out))
       \/ \E e \in Errors :
            /\ calls' = Append(calls,
                   Call("get_competitor_intelligence", <<args.market_segment>>, Raised(e)))
            /\ Reraise(e)
    /\ UNCHANGED <<today, last_analysis_date, models_validated_last_week, scen, op,
                   args, pre_date, decision, lastSuccess, freshToday>>

-----------------------------------------------------------------------------
(* update_models, lines 165-177 *)

\* model_updates: a dict, given as its (uuid, updates) items in iteration order
UpdateMaps ==
    {<< >>, <<<<"u1", "x">>>>, <<<<"u1", "x">>, <<"u2", "y">>>>,
     <<<<"u2", "x">>, <<"u1", "y">>>>,
     <<<<"u3", "y">>, <<"u1", "x">>, <<"u2", "x">>>>}

Call_update_models ==
    \E mu \in UpdateMaps : Begin("update_models", mu, "um_172") /\ UNCHANGED scen

\* Variant of lines 172-173 that goes on with the next uuid when an update
\* raised.
UpdateOne_ContinueOnError ==
    /\ pc = "um_172"
    /\ idx < Len(args)
    /\ \/ calls' = Append(calls, Call("update_model", args[idx + 1], Ok(None)))
       \/ \E e \in Errors :
            calls' = Append(calls, Call("update_model", args[idx + 1], Raised(e)))
    /\ idx' = idx + 1
    /\ UNCHANGED <<pc, result, acc, market_data, customer_insights, market_trends>>
    /\ UNCHANGED <<today, last_analysis_date, models_validated_last_week, scen, op,
                   args, pre_date, decision, lastSuccess, freshToday>>

\* lines 172-173: one iteration of the loop
UpdateOne ==
    /\ pc = "um_172"
    /\ idx < Len(args)
    /\ \/ /\ calls' = Append(calls, Call("update_model", args[idx + 1], Ok(None)))
          /\ idx' = idx + 1
          /\ UNCHANGED <<pc, result, acc, market_data, customer_insights, market_trends>>
       \/ \E e \in Errors :
            /\ calls' = Append(calls, Call("update_model", args[idx + 1], Raised(e)))
            /\ Reraise(e)
    /\ UNCHANGED <<today, last_analysis_date, models_validated_last_week, scen, op,
                   args, pre_date, decision, lastSuccess, freshToday>>

\* Variant of the return of update_models that forgets the analysis date, so
\* that the next generation analyses the market again.
UpdateReturn_InvalidatesDate ==
    /\ pc = "um_172"
    /\ idx = Len(args)
    /\ Return(None)
    /\ last_analysis_date' = NoDate
    /\ UNCHANGED <<today, models_validated_last_week, scen, op,
                   args, calls, pre_date, decision, lastSuccess, freshToday>>

\* the loop is exhausted: the method returns None
UpdateReturn ==
    /\ pc = "um_172"
    /\ idx = Len(args)
    /\ Return(None)
    /\ UNCHANGED <<today, last_analysis_date, models_validated_last_week, scen, op,
                   args, calls, pre_date, decision, lastSuccess, freshToday>>

-----------------------------------------------------------------------------
(* get_dashboard_data, lines 179-193 *)

ModelCounts == {0, 2}

\* Variant of lines 185-189 that renders the current date in place of the
\* recorded one.
DashboardData_RendersToday(count, validated, last) ==
    [models_count |-> count,
     validations_last_week |-> validated,
     last_analysis_date |-> IF last # NoDate THEN isoformat(today) ELSE None]

\* lines 185-189: the dict that is returned
DashboardData(count, validated, last) ==
    [models_count |-> count,
     validations_last_week |-> validated,
     last_analysis_date |-> IF last # NoDate THEN isoformat(last) ELSE None]

\* The whole method: one read of financial_modeler.model_count, then return.
GetDashboardData ==
    /\ pc = "idle"
    /\ op' = "get_dashboard_data"
    /\ args' = NoArgs
    /\ pre_date' = last_analysis_date
    /\ decision' = NoDecision
    /\ \/ \E n \in ModelCounts :
            /\ calls' = <<Call("model_count", << >>, Ok(n))>>
            /\ Return(DashboardData(n, models_validated_last_week, last_analysis_date))
       \/ \E e \in Errors :
            /\ calls' = <<Call("model_count", << >>, Raised(e))>>
            /\ Reraise(e)
    /\ UNCHANGED <<today, last_analysis_date, models_validated_last_week, scen,
                   lastSuccess, freshToday>>

-----------------------------------------------------------------------------

Next ==
    \/ Tick
    \/ CallerResumes
    \/ Call_analyze_market_trends
    \/ GetCurrentMarketData
    \/ ExtractInsights
    \/ NormalizeAndRecord
    \/ Call_generate_business_models
    \/ ChooseTrendSource
    \/ GetCachedData
    \/ CreateModels
    \/ Call_validate_models
    \/ ValidateOne
    \/ ValidateReturn
    \/ Call_optimize_models
    \/ OptimizeOne
    \/ OptimizeReturn
    \/ Call_track_competition
    \/ GetCompetitorIntelligence
    \/ Call_update_models
    \/ UpdateOne
    \/ UpdateReturn
    \/ GetDashboardData

Spec == Init /\ [][Next]_vars

-----------------------------------------------------------------------------
(* A caller that remembers an earlier call *)

\* The caller keeps the report analyze_market_trends returned, with the
\* collaborator outputs it was built from and the date the instance then held.
CallerKeepsReport ==
    /\ op = "analyze_market_trends"
    /\ pc = "done"
    /\ result.status = "ok"
    /\ kept' = [kind |-> "analysis", day |-> lastSuccess, date |-> last_analysis_date,
                market_data |-> calls[1].ret.value,
                customer_insights |-> calls[2].ret.value,
                report |-> result.value]
    /\ Resume
    /\ UNCHANGED <<other, main_pc, models, validation_results>>

\* The caller notes that generate_business_models raised at create_models,
\* after the analysis of that call had returned its report.
CallerNotesFailedGenerate ==
    /\ op = "generate_business_models"
    /\ pc = "done"
    /\ result.status = "raised"
    /\ decision.path = "fresh"
    /\ Len(calls) = 3
    /\ calls[3].fn = "create_models"
    /\ kept' = [NoKept EXCEPT !.kind = "generate_failed", !.day = lastSuccess,
                              !.date = last_analysis_date]
    /\ Resume
    /\ UNCHANGED <<other, main_pc, models, validation_results>>

NextHistory ==
    \/ Tick
    \/ CallerResumes
    \/ CallerKeepsReport
    \/ CallerNotesFailedGenerate
    \/ Call_analyze_market_trends
    \/ GetCurrentMarketData
    \/ ExtractInsights
    \/ NormalizeAndRecord
    \/ Call_generate_business_models
    \/ ChooseTrendSource
    \/ GetCachedData
    \/ CreateModels
    \/ Call_track_competition
    \/ GetCompetitorIntelligence
    \/ Call_update_models
    \/ UpdateOne
    \/ UpdateReturn
    \/ GetDashboardData

SpecHistory == Init /\ [][NextHistory]_vars

-----------------------------------------------------------------------------
(* Two threads calling generate_business_models on one instance *)

\* the call of the running thread
ThisFrame ==
    [op |-> op, pc |-> pc, args |-> args, market_data |-> market_data,
     customer_insights |-> customer_insights, market_trends |-> market_trends,
     acc |-> acc, idx |-> idx, calls |-> calls, result |-> result,
     pre_date |-> pre_date, decision |-> decision]

\* The interpreter suspends the running thread and runs the other one.  The
\* instance's fields are shared; a call's position and locals are its own.
\* (A thread whose call has ended is first let go to its next call: that
\* step touches nothing the other thread reads.)
Switch ==
    /\ pc # "done"
    /\ pc # "idle" \/ other.pc # "idle"
    /\ other' = ThisFrame
    /\ op' = other.op
    /\ pc' = other.pc
    /\ args' = other.args
    /\ market_data' = other.market_data
    /\ customer_insights' = other.customer_insights
    /\ market_trends' = other.market_trends
    /\ acc' = other.acc
    /\ idx' = other.idx
    /\ calls' = other.calls
    /\ result' = other.result
    /\ pre_date' = other.pre_date
    /\ decision' = other.decision
    /\ UNCHANGED <<today, last_analysis_date, models_validated_last_week,
                   lastSuccess, freshToday, kept, main_pc, models,
                   validation_results>>

\* The running thread calls generate_business_models; both threads ask for
\* the same segment and target revenue.
ThreadCallsGenerate ==
    /\ Begin("generate_business_models",
             [market_segment |-> "s1", target_revenue |-> 100], "gbm_75")
    /\ UNCHANGED scen

NextConcurrent ==
    \/ Tick
    \/ Switch
    \/ CallerResumes
    \/ ThreadCallsGenerate
    \/ ChooseTrendSource
    \/ GetCurrentMarketData
    \/ ExtractInsights
    \/ NormalizeAndRecord
    \/ GetCachedData
    \/ CreateModels

SpecConcurrent == Init /\ [][NextConcurrent]_vars

-----------------------------------------------------------------------------
(* main, lines 196-223 *)

\* line 215: [model['uuid'] for model in models]
UuidsOf(ms) == [i \in 1..Len(ms) |-> Str(ms[i]["uuid"])]

\* line 219: [model for model in models if validation_results[model['uuid']]]
ValidModels(ms, vr) == SelectSeq(ms, LAMBDA model : vr[model["uuid"]])

\* line 211: models = abmif.generate_business_models(market_segment, target_revenue)
MainCallsGenerate ==
    /\ main_pc = "m_211"
    /\ Begin("generate_business_models",
             [market_segment |-> "Sustainable Agriculture",
              target_revenue |-> 1000000], "gbm_75")
    /\ main_pc' = "m_211_called"
    /\ UNCHANGED <<kept, other, models, validation_results>>

\* line 211 assigns the returned models; an exception goes to line 222
MainAfterGenerate ==
    /\ main_pc = "m_211_called"
    /\ IF result.status = "ok"
       THEN models' = result.value /\ main_pc' = "m_215"
       ELSE main_pc' = "m_except" /\ UNCHANGED models
    /\ Resume
    /\ UNCHANGED <<kept, other, validation_results>>

\* line 215: validation_results = abmif.validate_models([model['uuid'] for model in models])
MainCallsValidate ==
    /\ main_pc = "m_215"
    /\ Begin("validate_models", UuidsOf(models), "vm_102")
    /\ main_pc' = "m_215_called"
    /\ UNCHANGED <<kept, other, models, validation_results>>

\* line 215 assigns the returned mapping; an exception goes to line 222
MainAfterValidate ==
    /\ main_pc = "m_215_called"
    /\ IF result.status = "ok"
       THEN validation_results' = result.value /\ main_pc' = "m_219"
       ELSE main_pc' = "m_except" /\ UNCHANGED validation_results
    /\ Resume
    /\ UNCHANGED <<kept, other, models>>

\* line 219: optimized_models = abmif.optimize_models([... if validation_results[...]])
MainCallsOptimize ==
    /\ main_pc = "m_219"
    /\ Begin("optimize_models", ValidModels(models, validation_results), "om_126")
    /\ main_pc' = "m_219_called"
    /\ UNCHANGED <<kept, other, models, validation_results>>

\* line 220, or line 222 when optimize_models raised
MainAfterOptimize ==
    /\ main_pc = "m_219_called"
    /\ main_pc' = IF result.status = "ok" THEN "m_end" ELSE "m_except"
    /\ Resume
    /\ UNCHANGED <<kept, other, models, validation_results>>

\* main() on a new instance.  get_cached_data is not called (the instance has
\* no analysis date when line 75 runs) and optimize_models never gets a
\* non-empty list, so GetCachedData and OptimizeOne have no step here.
NextMain ==
    \/ Tick
    \/ MainCallsGenerate
    \/ ChooseTrendSource
    \/ GetCurrentMarketData
    \/ ExtractInsights
    \/ NormalizeAndRecord
    \/ CreateModels
    \/ MainAfterGenerate
    \/ MainCallsValidate
    \/ ValidateOne
    \/ ValidateReturn
    \/ MainAfterValidate
    \/ MainCallsOptimize
    \/ OptimizeReturn
    \/ MainAfterOptimize

SpecMain == Init /\ [][NextMain]_vars
-----------------------------------------------------------------------------
(* Properties *)

\* positions in calls of the calls to collaborator operation fn
CallsTo(fn) == {i \in 1..Len(calls) : calls[i].fn = fn}

\* calendar date a lies at least one day before calendar date b
StrictlyBefore(a, b) == \E n \in 1..(MaxTicks + 1) : DayAfter(a, n) = b

InGenerate == op = "generate_business_models"

\* C1: generate_business_models chooses exactly one trend source from the
\* state it finds at line 75.  With last_analysis_date unset or strictly
\* before the current date it takes the fresh path: it calls
\* get_current_market_data (and extract_insights once that has returned) and
\* never get_cached_data.  With last_analysis_date equal to the current date
\* it calls get_cached_data and never get_current_market_data or
\* extract_insights.
C1_TrendSourceByState ==
    InGenerate =>
      /\ pc # "gbm_75" => decision.path \in {"fresh", "cached"}
      /\ decision.path # "none" =>
           /\ \/ decision.last = NoDate
              \/ StrictlyBefore(decision.last, decision.today)
              \/ decision.last = decision.today
           /\ (decision.last = NoDate \/ StrictlyBefore(decision.last, decision.today)) =>
                /\ decision.path = "fresh"
                /\ CallsTo("get_cached_data") = {}
                /\ pc # "amt_46" =>
                     /\ Cardinality(CallsTo("get_current_market_data")) = 1
                     /\ calls[1].fn = "get_current_market_data"
                /\ (pc \notin {"amt_46", "amt_47"} /\ calls[1].ret.status = "ok") =>
                     /\ Cardinality(CallsTo("extract_insights")) = 1
                     /\ calls[2].fn = "extract_insights"
           /\ decision.last = decision.today =>
                /\ decision.path = "cached"
                /\ CallsTo("get_current_market_data") = {}
                /\ CallsTo("extract_insights") = {}
                /\ pc # "gbm_78" =>
                     /\ Cardinality(CallsTo("get_cached_data")) = 1
                     /\ calls[1].fn = "get_cached_data"

\* A generate call that found last_analysis_date equal to the current date
\* has completed on the cached path.
C1_Witness ==
    /\ InGenerate
    /\ pc = "done"
    /\ decision.last = decision.today
    /\ decision.path = "cached"
    /\ result.status = "ok"
    /\ calls[1].fn = "get_cached_data"

\* C2 as stated: among the generate_business_models calls of one calendar
\* day at most one takes the fresh path, whatever the collaborators do.
C2_AtMostOneFreshPathPerDay ==
    [][(pc = "gbm_75" /\ pc' = "amt_46") => ~freshToday]_vars

\* C2, amended: a generate_business_models call takes the fresh path only
\* when no analysis has returned a report on the current date.  So at most
\* one generate call per calendar day completes a fresh analysis, and every
\* generate call after it that day takes the cached path; a call whose fresh
\* analysis failed can be followed by another fresh-path call the same day.
C2_AtMostOneSuccessfulFreshPerDay ==
    [][/\ (pc = "gbm_75" /\ pc' = "amt_46") => lastSuccess # today
       /\ (pc = "gbm_75" /\ pc' # pc /\ lastSuccess = today) => pc' = "gbm_78"]_vars

\* A second generate call of the day, after one whose fresh analysis
\* succeeded that day, has gone to the cached path.
C2_Witness ==
    /\ InGenerate
    /\ decision.path = "cached"
    /\ freshToday
    /\ lastSuccess = today
    /\ decision.today = today

InBatch == op \in {"validate_models", "optimize_models"}

BatchFn == IF op = "validate_models" THEN "validate" ELSE "optimize"

\* positions in calls of the collaborator calls that raised
RaisedCalls == {i \in 1..Len(calls) : calls[i].ret.status = "raised"}

\* call i of the batch was made for the i-th input model
SentForItem(i) ==
    /\ calls[i].fn = BatchFn
    /\ calls[i].arg[1] = args[i]["uuid"]
    /\ calls[i].arg[2] =
         (IF "market_segment" \in DOMAIN args[i] THEN args[i]["market_segment"] ELSE None)
    /\ calls[i].arg[3] =
         (IF "revenue_projections" \in DOMAIN args[i]
          THEN args[i]["revenue_projections"] ELSE None)

\* C3: validate_models and optimize_models send the items to the Financial
\* Modeler in input order, one call per item.  When the call for item k
\* raises, the operation raises that error and returns no mapping or
\* sequence; items 1..k were each sent once and no item after k is sent.
C3_BatchFailFast ==
    InBatch =>
      /\ Len(calls) <= Len(args)
      /\ \A i \in 1..Len(calls) : SentForItem(i)
      /\ RaisedCalls # {} =>
           /\ RaisedCalls = {Len(calls)}
           /\ pc = "done"
           /\ result = Raised(calls[Len(calls)].ret.value)
      /\ (pc = "done" /\ result.status = "raised") => RaisedCalls # {}

\* validate_models failed at the second of three items.
C3_Witness ==
    /\ op = "validate_models"
    /\ pc = "done"
    /\ Len(args) = 3
    /\ Len(calls) = 2
    /\ calls[1].ret.status = "ok"
    /\ calls[2].ret.status = "raised"
    /\ result.status = "raised"

ValidateDone == op = "validate_models" /\ pc = "done"

\* uuids of the input models
InputUuids == {args[i]["uuid"] : i \in 1..Len(args)}

\* position of the last input model carrying uuid u
LastWith(u) ==
    CHOOSE i \in 1..Len(args) :
        /\ args[i]["uuid"] = u
        /\ \A j \in (i + 1)..Len(args) : args[j]["uuid"] # u

\* C4 as stated: when every validate call succeeds, validate_models issues
\* N calls and returns a mapping with exactly N entries, one per input uuid,
\* each the boolean returned for that uuid, for any uuids.
C4_OneEntryPerInputModel ==
    (ValidateDone /\ RaisedCalls = {}) =>
      /\ result.status = "ok"
      /\ Len(calls) = Len(args)
      /\ Cardinality(DOMAIN result.value) = Len(args)
      /\ \A i \in 1..Len(args) :
           /\ args[i]["uuid"] \in DOMAIN result.value
           /\ result.value[args[i]["uuid"]] = calls[i].ret.value

\* C4, amended: when every validate call succeeds, validate_models issues
\* exactly N validate calls and returns a mapping with one entry per distinct
\* input uuid (exactly N entries when the uuids are pairwise distinct), each
\* equal to the boolean returned by the call for the last input model that
\* carries that uuid; for N = 0 the mapping is empty and no call is made.
C4_OneEntryPerDistinctUuid ==
    (ValidateDone /\ RaisedCalls = {}) =>
      /\ result.status = "ok"
      /\ Len(calls) = Len(args)
      /\ DOMAIN result.value = InputUuids
      /\ \A u \in InputUuids : result.value[u] = calls[LastWith(u)].ret.value
      /\ Cardinality(InputUuids) = Len(args) =>
           Cardinality(DOMAIN result.value) = Len(args)
      /\ Len(args) = 0 => (DOMAIN result.value = {} /\ calls = << >>)

\* Three models, two of them with the same uuid and different verdicts, have
\* been validated.
C4_Witness ==
    /\ ValidateDone
    /\ result.status = "ok"
    /\ Len(args) = 3
    /\ args[1]["uuid"] = args[3]["uuid"]
    /\ args[2]["uuid"] # args[1]["uuid"]
    /\ calls[1].ret.value # calls[3].ret.value

OptimizeDone == op = "optimize_models" /\ pc = "done"

\* C5: when every optimize call succeeds, optimize_models returns a sequence
\* of length N whose i-th element is the record the Financial Modeler
\* returned for the i-th input model.
C5_OptimizedInInputOrder ==
    (OptimizeDone /\ RaisedCalls = {}) =>
      /\ result.status = "ok"
      /\ Len(calls) = Len(args)
      /\ Len(result.value) = Len(args)
      /\ \A i \in 1..Len(args) :
           /\ SentForItem(i)
           /\ result.value[i] = calls[i].ret.value

\* Three models have been optimized into records that are not all the same.
C5_Witness ==
    /\ OptimizeDone
    /\ result.status = "ok"
    /\ Len(args) = 3
    /\ result.value[1] # result.value[3]

\* the two collaborator outputs from which a report can be built
ReportBuildable ==
    /\ Len(calls) >= 2
    /\ calls[1].fn = "get_current_market_data" /\ calls[1].ret.status = "ok"
    /\ calls[2].fn = "extract_insights" /\ calls[2].ret.status = "ok"
    /\ "growth_rate" \in DOMAIN calls[1].ret.value
    /\ "pain_points" \in DOMAIN calls[2].ret.value

ReportFromCalls ==
    [market_growth |-> calls[1].ret.value["growth_rate"],
     customer_pain_points |-> calls[2].ret.value["pain_points"]]

AnalyzeDone == op = "analyze_market_trends" /\ pc = "done"

C6_State ==
    /\ pc \in {"amt_46", "amt_47", "amt_50"} => last_analysis_date = pre_date
    /\ AnalyzeDone =>
         /\ result.status = "ok" <=> ReportBuildable
         /\ result.status = "ok" =>
              /\ result.value = ReportFromCalls
              /\ last_analysis_date # NoDate
         /\ result.status = "raised" => last_analysis_date = pre_date
    /\ (InGenerate /\ pc = "done" /\ decision.path = "fresh" /\ ~ReportBuildable) =>
         last_analysis_date = pre_date

C6_Step ==
    last_analysis_date' # last_analysis_date =>
      /\ pc = "amt_50"
      /\ last_analysis_date' = today
      /\ \/ /\ op = "analyze_market_trends"
            /\ pc' = "done"
            /\ result'.status = "ok"
         \/ /\ InGenerate
            /\ pc' = "gbm_81"
            /\ DOMAIN market_trends' = {"market_growth", "customer_pain_points"}

\* C6: analyze_market_trends is all-or-nothing.  If get_current_market_data
\* or extract_insights raises, or the report cannot be built from their
\* outputs, the call raises, returns no report and leaves last_analysis_date
\* as it was before the call; last_analysis_date is set, to the current
\* date, only in the step that returns a complete report.
C6_AnalysisAllOrNothing == [](C6_State) /\ [][C6_Step]_vars

\* A direct analysis failed at extract_insights on an instance whose date
\* had been set by an earlier analysis.
C6_Witness ==
    /\ AnalyzeDone
    /\ result.status = "raised"
    /\ Len(calls) = 2
    /\ pre_date # NoDate
    /\ last_analysis_date = pre_date

\* C7: with a calendar that never goes back, last_analysis_date never moves
\* to an earlier date and, once set, never returns to unset.
C7_DateNeverGoesBack ==
    [][last_analysis_date # NoDate =>
         /\ last_analysis_date' # NoDate
         /\ ~DateGT(last_analysis_date, last_analysis_date')]_vars

\* A call has moved a date that was already set to a later date.
C7_Witness ==
    /\ pre_date # NoDate
    /\ last_analysis_date # NoDate
    /\ DateGT(last_analysis_date, pre_date)

GenerateDone == InGenerate /\ pc = "done"

\* the trend step (fresh analysis or cache read) of the call has failed
TrendStepFailed ==
    \/ \E i \in RaisedCalls : calls[i].fn # "create_models"
    \/ /\ decision.path = "fresh"
       /\ Len(calls) >= 2
       /\ ~ReportBuildable

\* C8: in generate_business_models, when the trend step fails create_models
\* is never invoked and the call raises, returning no models; when
\* create_models raises, the call raises, returning no models.
C8_GenerateAborts ==
    InGenerate =>
      /\ TrendStepFailed => CallsTo("create_models") = {}
      /\ (pc = "done" /\ TrendStepFailed) => result.status = "raised"
      /\ \A i \in CallsTo("create_models") :
           calls[i].ret.status = "raised" =>
             (pc = "done" /\ result = Raised(calls[i].ret.value))
      /\ (pc = "done" /\ result.status = "ok") =>
           (~TrendStepFailed /\ CallsTo("create_models") # {})

\* A generate call on the cached path ended at the failure of get_cached_data.
C8_Witness ==
    /\ GenerateDone
    /\ decision.path = "cached"
    /\ Len(calls) = 1
    /\ calls[1].fn = "get_cached_data"
    /\ calls[1].ret.status = "raised"
    /\ result.status = "raised"

\* pain points of the trend source the call chose
ChosenPainPoints ==
    IF decision.path = "fresh"
    THEN calls[2].ret.value["pain_points"]
    ELSE calls[1].ret.value["customer_pain_points"]

\* C9: on every successful generate_business_models call, create_models is
\* invoked exactly once, with the caller's segment and target revenue and the
\* pain points of the chosen trend source (extract_insights' pain_points on
\* the fresh path, get_cached_data's customer_pain_points on the cached
\* path), and the call returns exactly what create_models returned.
C9_CreateModelsForwarding ==
    (GenerateDone /\ result.status = "ok") =>
      LET last == calls[Len(calls)]
      IN  /\ CallsTo("create_models") = {Len(calls)}
          /\ calls[IF decision.path = "fresh" THEN 2 ELSE 1].fn =
               (IF decision.path = "fresh" THEN "extract_insights" ELSE "get_cached_data")
          /\ last.arg[1] = args.market_segment
          /\ last.arg[2] = args.target_revenue
          /\ last.arg[3] = ChosenPainPoints
          /\ last.ret.status = "ok"
          /\ result.value = last.ret.value

\* A generate call on the fresh path returned proposals created from
\* non-empty pain points.
C9_Witness ==
    /\ GenerateDone
    /\ result.status = "ok"
    /\ decision.path = "fresh"
    /\ Len(calls) = 3
    /\ calls[3].arg[3] = <<"p2", "p1">>
    /\ Len(result.value) = 2

\* ISO forms of the dates around the turn of the year, written out
IsoTable ==
    {<<[year |-> 2024, month |-> 12, day |-> 31], "2024-12-31">>,
     <<[year |-> 2025, month |-> 1, day |-> 1], "2025-01-01">>,
     <<[year |-> 2025, month |-> 1, day |-> 2], "2025-01-02">>,
     <<[year |-> 2025, month |-> 1, day |-> 3], "2025-01-03">>,
     <<[year |-> 2025, month |-> 1, day |-> 4], "2025-01-04">>}

DashboardDone == op = "get_dashboard_data" /\ pc = "done"

\* C10: get_dashboard_data reports last_analysis_date as null exactly when
\* no analysis, direct or triggered by generate_business_models, has yet
\* returned a report on the instance, and otherwise as the ISO form of the
\* date of the most recent analysis that did.
C10_DashboardDate ==
    (DashboardDone /\ result.status = "ok") =>
      LET shown == result.value.last_analysis_date
      IN  /\ shown = None <=> lastSuccess = NoDate
          /\ lastSuccess # NoDate =>
               \E e \in IsoTable : e[1] = lastSuccess /\ e[2] = shown

\* The dashboard shows the date of an analysis of an earlier day.
C10_Witness ==
    /\ DashboardDone
    /\ result.status = "ok"
    /\ result.value.last_analysis_date = "2025-01-01"
    /\ today = [year |-> 2025, month |-> 1, day |-> 2]

\* the five methods that are no part of the analysis
NoAnalysisOps ==
    {"validate_models", "optimize_models", "track_competition", "update_models",
     "get_dashboard_data"}

C11_State ==
    /\ op \in NoAnalysisOps => last_analysis_date = pre_date
    /\ op = "get_dashboard_data" =>
         /\ Len(calls) = 1
         /\ calls[1].fn = "model_count"

C11_Step ==
    /\ last_analysis_date' # last_analysis_date =>
         /\ op \in {"analyze_market_trends", "generate_business_models"}
         /\ pc = "amt_50"
         /\ lastSuccess' = today
    /\ (last_analysis_date = today /\ last_analysis_date' # today') => today' # today

\* C11: last_analysis_date is changed only by an analyze_market_trends that
\* returns a report, called directly or from generate_business_models.
\* validate_models, optimize_models, track_competition, update_models and
\* get_dashboard_data leave it as it was, whether they return or raise, so a
\* Fresh instance (date equal to the current date) becomes Stale only when the
\* calendar advances; get_dashboard_data makes no collaborator call other
\* than the read of model_count.
C11_DateChangedOnlyByAnalysis == [](C11_State) /\ [][C11_Step]_vars

\* update_models has returned on an instance whose date was set, and the date
\* is the one the call found.
C11_Witness ==
    /\ op = "update_models"
    /\ pc = "done"
    /\ result.status = "ok"
    /\ Len(args) = 3
    /\ pre_date # NoDate
    /\ last_analysis_date = pre_date

\* C12: in each of the seven methods, when a collaborator call raises, the
\* caller receives the very error the collaborator raised, and no further
\* collaborator call (in particular no retry) is made in that call.
C12_SameErrorNoRetry ==
    RaisedCalls # {} =>
      /\ RaisedCalls = {Len(calls)}
      /\ pc = "done"
      /\ result = Raised(calls[Len(calls)].ret.value)
      /\ result.value \in Errors

\* track_competition has handed on the error its collaborator raised.
C12_Witness ==
    /\ op = "track_competition"
    /\ pc = "done"
    /\ calls[1].ret = Raised("ErrB")
    /\ result = Raised("ErrB")

InUpdate == op = "update_models"

\* C13: update_models forwards each (uuid, payload) item of the mapping to
\* update_model once, in iteration order; when an update_model call raises,
\* the method raises and no update_model call is made for the remaining
\* uuids.
C13_UpdateFailFast ==
    InUpdate =>
      /\ Len(calls) <= Len(args)
      /\ \A i \in 1..Len(calls) :
           /\ calls[i].fn = "update_model"
           /\ calls[i].arg = args[i]
      /\ RaisedCalls # {} =>
           /\ RaisedCalls = {Len(calls)}
           /\ pc = "done"
           /\ result.status = "raised"
      /\ (pc = "done" /\ result.status = "ok") =>
           (Len(calls) = Len(args) /\ RaisedCalls = {})

\* update_models failed at the second of three uuids.
C13_Witness ==
    /\ InUpdate
    /\ pc = "done"
    /\ Len(args) = 3
    /\ Len(calls) = 2
    /\ calls[2].ret.status = "raised"
    /\ result.status = "raised"

TrackDone == op = "track_competition" /\ pc = "done"

\* the Competitor Tracker's answer to the call, when it returned one
TrackerAnswered == Len(calls) = 1 /\ calls[1].ret.status = "ok"

\* C14: for every segment and every Competitor Tracker output with non-empty
\* gaps and recommendations, track_competition returns key_opportunity equal
\* to the first gap and differentiation_strategy equal to the first
\* recommendation.
C14_FirstGapFirstRecommendation ==
    (TrackDone /\ TrackerAnswered) =>
      LET out == calls[1].ret.value
      IN  (Len(out.gaps) > 0 /\ Len(out.recommendations) > 0) =>
            /\ calls[1].arg = <<args.market_segment>>
            /\ result.status = "ok"
            /\ result.value.key_opportunity = Head(out.gaps)
            /\ result.value.differentiation_strategy = Head(out.recommendations)

\* track_competition has answered an output with two gaps and two
\* recommendations.
C14_Witness ==
    /\ TrackDone
    /\ TrackerAnswered
    /\ calls[1].ret.value.gaps = <<"g1", "g2">>
    /\ calls[1].ret.value.recommendations = <<"r2", "r1">>
    /\ result.status = "ok"

\* C15: when the Competitor Tracker returns an empty gaps or an empty
\* recommendations sequence, track_competition raises (the index error) and
\* returns no analysis, neither a partial record nor a fallback value.
C15_EmptyOutputRaises ==
    (TrackDone /\ TrackerAnswered) =>
      LET out == calls[1].ret.value
      IN  (Len(out.gaps) = 0 \/ Len(out.recommendations) = 0) =>
            result = Raised(IndexError)

\* track_competition was given gaps and no recommendation.
C15_Witness ==
    /\ TrackDone
    /\ TrackerAnswered
    /\ Len(calls[1].ret.value.gaps) = 2
    /\ calls[1].ret.value.recommendations = << >>
    /\ result.status = "raised"

\* C17: the weekly validation counter is 0 in every reachable state: no
\* method changes it, successful validate_models calls included, and
\* get_dashboard_data reports validations_last_week = 0.
C17_CounterStaysZero ==
    /\ models_validated_last_week = 0
    /\ (DashboardDone /\ result.status = "ok") =>
         result.value.validations_last_week = 0

\* validate_models has validated three models and the counter is 0.
C17_Witness ==
    /\ ValidateDone
    /\ result.status = "ok"
    /\ Len(args) = 3
    /\ models_validated_last_week = 0

\* C16: analyze_market_trends called twice on one calendar day, with both
\* collaborators returning the same data both times, returns two equal
\* reports, and last_analysis_date after the second call is what it was
\* after the first.
C16_AnalysisIdempotentWithinDay ==
    [][(/\ op = "analyze_market_trends"
        /\ pc = "amt_50"
        /\ pc' = "done"
        /\ result'.status = "ok"
        /\ kept.kind = "analysis"
        /\ kept.day = today
        /\ market_data = kept.market_data
        /\ customer_insights = kept.customer_insights)
       => (/\ result'.value = kept.report
           /\ last_analysis_date' = kept.date)]_vars

\* A second analysis of the day has returned, from the same collaborator
\* data as the one whose report the caller kept.
C16_Witness ==
    /\ AnalyzeDone
    /\ result.status = "ok"
    /\ kept.kind = "analysis"
    /\ kept.day = lastSuccess
    /\ kept.day = today
    /\ calls[1].ret.value = kept.market_data
    /\ calls[2].ret.value = kept.customer_insights
    /\ kept.report.customer_pain_points = <<"p2", "p1">>

\* the call analysed the market and then failed at create_models
FailedAfterFreshAnalysis ==
    /\ GenerateDone
    /\ decision.path = "fresh"
    /\ Len(calls) = 3
    /\ calls[3].fn = "create_models"
    /\ calls[3].ret.status = "raised"

C19_State ==
    FailedAfterFreshAnalysis =>
      /\ result.status = "raised"
      /\ last_analysis_date # NoDate
      /\ last_analysis_date = lastSuccess
      /\ \/ last_analysis_date = decision.today
         \/ StrictlyBefore(decision.today, last_analysis_date)

C19_Step ==
    (/\ pc = "gbm_75"
     /\ pc' # "gbm_75"
     /\ kept.kind = "generate_failed"
     /\ kept.day = today)
    => (/\ pc' = "gbm_78"
        /\ decision'.path = "cached")

\* C19: a generate_business_models call that fails does not undo the analysis
\* it made.  When its fresh analysis returned a report and create_models then
\* raised, last_analysis_date stays the date of that analysis, and the next
\* generate_business_models call of that day takes the cached path
\* (get_cached_data), not the fresh one.
C19_FailedGenerateKeepsAnalysis == [](C19_State) /\ [][C19_Step]_vars

\* The generate call after one that failed at create_models the same day has
\* read the cache.
C19_Witness ==
    /\ GenerateDone
    /\ kept.kind = "generate_failed"
    /\ kept.day = today
    /\ decision.today = today
    /\ decision.path = "cached"
    /\ calls[1].fn = "get_cached_data"

AnalysisSteps == {"amt_46", "amt_47", "amt_50"}

\* C18: the choice at line 75 is not atomic with the update of
\* last_analysis_date at line 55.  The step that chooses the trend source
\* leaves last_analysis_date as it found it and goes to the fresh path
\* whenever the date is not the current one, whatever the other thread is
\* doing; so, with two generate_business_models calls interleaved on a Stale
\* instance, both can be on the fresh path on the same day (C18_Witness).
C18_ChoiceNotAtomicWithUpdate ==
    [][(pc = "gbm_75" /\ pc' \in {"amt_46", "gbm_78"} /\ other' = other) =>
         /\ last_analysis_date' = last_analysis_date
         /\ last_analysis_date # today => pc' = "amt_46"]_vars

\* Both threads have chosen the fresh path on the same day and each has
\* called get_current_market_data.
C18_Witness ==
    /\ InGenerate
    /\ other.op = "generate_business_models"
    /\ decision.path = "fresh"
    /\ other.decision.path = "fresh"
    /\ decision.today = other.decision.today
    /\ pc \in AnalysisSteps
    /\ other.pc \in AnalysisSteps
    /\ Len(calls) >= 1
    /\ Len(other.calls) >= 1

\* C20: in main's generate -> validate -> optimize pipeline, whenever
\* generate_business_models returns at least one model, validate_models
\* returns its mapping and optimize_models is then called with exactly the
\* generated models whose validation result is true.
C20_PipelineValidatesThenOptimizes ==
    Len(models) >= 1 =>
      /\ (main_pc = "m_215_called" /\ pc = "done") => result.status = "ok"
      /\ main_pc = "m_219_called" =>
           /\ op = "optimize_models"
           /\ args = ValidModels(models, validation_results)

====
